---------------------------- MODULE Spec2Model ----------------------------
(***************************************************************************)
(* Model of quadTree.cpp: the QuadTree node class (constructor, destructor,*)
(* subdivide, toDotty/toDottyRecursive) and the static counter nextId.     *)
(*                                                                         *)
(* Nodes live in a heap addressed by small positive integers; NULL is the  *)
(* null pointer.  Three specifications share the state:                    *)
(*   Spec      every member function is one atomic action;                 *)
(*   StepSpec  subdivide() runs statement by statement on an explicit call *)
(*             stack, so that the states in the middle of a call exist;    *)
(*   FairStepSpec  StepSpec plus weak fairness of the running call.        *)
(***************************************************************************)
EXTENDS Integers, Sequences, FiniteSets

VARIABLES
    nextId,     \* QuadTree::nextId
    heap,       \* address -> node object (the live QuadTree objects)
    roots,      \* addresses returned by a top-level `new QuadTree(...)`
    made,       \* number of top-level constructions so far
    created,    \* history: the ids handed out, in construction order
    done,       \* history: live nodes on which a subdivide() call has returned
    trace,      \* history: the subdivide() invocations made by the last call (<<>> after another operation)
    dotCode,    \* the string returned by the last toDotty(), as a sequence of lines
    dotRoot,    \* history: the node that toDotty() was called on (NULL: never)
    dotHeap,    \* history: the heap that toDotty() read
    stack       \* StepSpec: the frames of the running subdivide() call

vars == <<nextId, heap, roots, made, created, done, trace, dotCode, dotRoot, dotHeap, stack>>

---------------------------------------------------------------------------
(* Bounds of the model. *)

MaxCreate == 2        \* top-level constructions in Spec
MaxStepCreate == 1    \* top-level constructions in StepSpec

(* The (x, y, width, height) arguments of the top-level constructions. *)
Region(x, y, w, h) == [x |-> x, y |-> y, width |-> w, height |-> h]

RootRegions ==
    { Region(0, 0, 10, 10),  Region(0, 0, 16, 16),  Region(3, 7, 33, 70),
      Region(0, 0, 31, 30),  Region(2, 0, 15, 40),  Region(0, 0, 0 - 8, 64),
      Region(0, 0, 0, 0) }

StepRegions ==
    { Region(0, 0, 100, 100), Region(0, 0, 10, 10), Region(3, 7, 33, 70),
      Region(0, 0, 31, 30),   Region(0, 0, 0 - 8, 64), Region(0, 0, 0, 0) }

---------------------------------------------------------------------------
(* Constants and pure helpers of the code. *)

NULL == 0
SizeFloor == 15

(* C++ integer division truncates toward zero. *)
DivNoHalving(a, b) == a
Div(a, b) ==
    IF a >= 0 THEN a \div b ELSE 0 - ((0 - a) \div b)

(* The size part of the guard of subdivide(). *)
AtFloorStrict(w, h) == w < SizeFloor \/ h < SizeFloor
AtFloor(w, h) == w <= SizeFloor \/ h <= SizeFloor

(* The children part of the guard of subdivide(). *)
HasChildrenNever(nd) == FALSE
HasChildren(nd) == nd.northWest # NULL

(* nextId++ *)
IdAfterStuck(n) == n
IdAfter(n) == n + 1

(* The order of the child slots, in construction and in recursion. *)
Slots == <<"NW", "NE", "SW", "SE">>

SlotOf(nd, s) ==
    CASE s = "NW" -> nd.northWest
      [] s = "NE" -> nd.northEast
      [] s = "SW" -> nd.southWest
      [] s = "SE" -> nd.southEast

SetSlot(nd, s, a) ==
    CASE s = "NW" -> [nd EXCEPT !.northWest = a]
      [] s = "NE" -> [nd EXCEPT !.northEast = a]
      [] s = "SW" -> [nd EXCEPT !.southWest = a]
      [] s = "SE" -> [nd EXCEPT !.southEast = a]

(* The Point passed to the constructor of child s. *)
ChildOriginSwapped(s, x, y, cw, ch) ==
    CASE s = "NW" -> [x |-> x,      y |-> y]
      [] s = "NE" -> [x |-> x + ch, y |-> y]
      [] s = "SW" -> [x |-> x,      y |-> y + cw]
      [] s = "SE" -> [x |-> x + cw, y |-> y + ch]
ChildOrigin(s, x, y, cw, ch) ==
    CASE s = "NW" -> [x |-> x,      y |-> y]
      [] s = "NE" -> [x |-> x + cw, y |-> y]
      [] s = "SW" -> [x |-> x,      y |-> y + ch]
      [] s = "SE" -> [x |-> x + cw, y |-> y + ch]

(* The object the constructor builds: the four slots start null. *)
NewNodeUninit(a, id, x, y, w, h) ==
    [id |-> id, x |-> x, y |-> y, width |-> w, height |-> h,
     northWest |-> NULL, northEast |-> NULL, southWest |-> NULL, southEast |-> a]
NewNode(a, id, x, y, w, h) ==
    [id |-> id, x |-> x, y |-> y, width |-> w, height |-> h,
     northWest |-> NULL, northEast |-> NULL, southWest |-> NULL, southEast |-> NULL]

(* operator new: the lowest free address (freed addresses are reused). *)
Alloc(hp) ==
    CHOOSE a \in 1..(Cardinality(DOMAIN hp) + 1) :
        a \notin DOMAIN hp /\ \A b \in 1..(a - 1) : b \in DOMAIN hp

(* The memory state threaded through the calls. *)
Mem == [heap |-> heap, nextId |-> nextId, created |-> created,
        done |-> done, trace |-> trace, ret |-> NULL]

(* new QuadTree(Point(x, y), w, h): the new address is left in .ret *)
Construct(m, x, y, w, h) ==
    LET a == Alloc(m.heap)
    IN  [m EXCEPT !.heap = [b \in DOMAIN m.heap \cup {a} |->
                               IF b = a THEN NewNode(a, m.nextId, x, y, w, h)
                                        ELSE m.heap[b]],
                  !.nextId = IdAfter(m.nextId),
                  !.created = Append(m.created, m.nextId),
                  !.ret = a]

(* One record of trace per invocation of subdivide(); msg: the std::cout line
   "Node <id>: Cannot subdivide further ..." was written. *)
Invocation(nd, msg) ==
    [id |-> nd.id, width |-> nd.width, height |-> nd.height,
     kids |-> nd.northWest # NULL, msg |-> msg]

(* The guard of subdivide(). *)
Stops(nd) == AtFloor(nd.width, nd.height) \/ HasChildren(nd)

(* _<slot> = new QuadTree(Point(...), childWidth, childHeight) in node n *)
MakeChild(m, n, s) ==
    LET nd == m.heap[n]
        cw == Div(nd.width, 2)
        ch == Div(nd.height, 2)
        o  == ChildOrigin(s, nd.x, nd.y, cw, ch)
        m1 == Construct(m, o.x, o.y, cw, ch)
    IN  [m1 EXCEPT !.heap[n] = SetSlot(@, s, m1.ret)]

RECURSIVE MakeChildren(_, _, _)
MakeChildren(m, n, i) ==
    IF i > Len(Slots) THEN m
    ELSE MakeChildren(MakeChild(m, n, Slots[i]), n, i + 1)

(* The order of the four recursive calls. *)
RecursionOrderReversed == <<"SE", "SW", "NE", "NW">>
RecursionOrder == <<"NW", "NE", "SW", "SE">>

(* n->subdivide(), the whole call with its recursion *)
RECURSIVE SubdivideRec(_, _)
RECURSIVE SubdivideChildren(_, _, _)
SubdivideRec(m, n) ==
    LET nd == m.heap[n]
    IN  IF Stops(nd)
        THEN [m EXCEPT !.trace = Append(@, Invocation(nd, TRUE)),
                       !.done = @ \cup {n}]
        ELSE LET m1 == [m EXCEPT !.trace = Append(@, Invocation(nd, FALSE))]
                 m2 == MakeChildren(m1, n, 1)
                 m3 == SubdivideChildren(m2, n, 1)
             IN  [m3 EXCEPT !.done = @ \cup {n}]
SubdivideChildren(m, n, i) ==
    IF i > Len(RecursionOrder) THEN m
    ELSE SubdivideChildren(SubdivideRec(m, SlotOf(m.heap[n], RecursionOrder[i])), n, i + 1)

(* The nodes a destructor call on n deletes (delete nullptr does nothing). *)
RECURSIVE Subtree(_, _)
Subtree(hp, n) ==
    IF n = NULL THEN {}
    ELSE {n} \cup Subtree(hp, hp[n].northWest) \cup Subtree(hp, hp[n].northEast)
             \cup Subtree(hp, hp[n].southWest) \cup Subtree(hp, hp[n].southEast)

(* The lines toDotty() writes. *)
NodeLine(nd) ==
    [kind |-> "node", id |-> nd.id, x |-> nd.x, y |-> nd.y,
     width |-> nd.width, height |-> nd.height, leaf |-> nd.northWest = NULL]
EdgeLine(nd, c, label) ==
    [kind |-> "edge", from |-> nd.id, to |-> c.id, label |-> label]

RECURSIVE ToDottyRecursive(_, _)
RECURSIVE ToDottyNoSE(_, _)
RECURSIVE ToDottyEdgesFirst(_, _)
(* variant: the south-east block is missing *)
ToDottyNoSE(hp, n) ==
    LET nd == hp[n]
        Part(c, label) ==
            IF c # NULL THEN <<EdgeLine(nd, hp[c], label)>> \o ToDottyNoSE(hp, c)
            ELSE <<>>
    IN  <<NodeLine(nd)>> \o Part(nd.northWest, "NW") \o Part(nd.northEast, "NE")
                         \o Part(nd.southWest, "SW")
(* variant: the four edges are written together, before the recursion *)
ToDottyEdgesFirst(hp, n) ==
    LET nd == hp[n]
        Edge(c, label) == IF c # NULL THEN <<EdgeLine(nd, hp[c], label)>> ELSE <<>>
        Sub(c) == IF c # NULL THEN ToDottyEdgesFirst(hp, c) ELSE <<>>
    IN  <<NodeLine(nd)>>
        \o Edge(nd.northWest, "NW") \o Edge(nd.northEast, "NE")
        \o Edge(nd.southWest, "SW") \o Edge(nd.southEast, "SE")
        \o Sub(nd.northWest) \o Sub(nd.northEast) \o Sub(nd.southWest) \o Sub(nd.southEast)
ToDottyRecursive(hp, n) ==
    LET nd == hp[n]
        Part(c, label) ==
            IF c # NULL THEN <<EdgeLine(nd, hp[c], label)>> \o ToDottyRecursive(hp, c)
            ELSE <<>>
    IN  <<NodeLine(nd)>> \o Part(nd.northWest, "NW") \o Part(nd.northEast, "NE")
                         \o Part(nd.southWest, "SW") \o Part(nd.southEast, "SE")

ToDotty(hp, n) ==
    <<[kind |-> "header"], [kind |-> "style"]>> \o ToDottyRecursive(hp, n)
        \o <<[kind |-> "footer"]>>

---------------------------------------------------------------------------
(* State machine. *)

Init ==
    /\ nextId = 0
    /\ heap = <<>>
    /\ roots = {}
    /\ made = 0
    /\ created = <<>>
    /\ done = {}
    /\ trace = <<>>
    /\ dotCode = <<>>
    /\ dotRoot = NULL
    /\ dotHeap = <<>>
    /\ stack = <<>>

(* QuadTree* root = new QuadTree(Point(x, y), width, height); as in main(),
   one tree is built at a time. *)
Create(r, max) ==
    /\ stack = <<>>
    /\ roots = {}
    /\ made < max
    /\ LET m == Construct(Mem, r.x, r.y, r.width, r.height)
       IN  /\ heap' = m.heap
           /\ nextId' = m.nextId
           /\ created' = m.created
           /\ roots' = roots \cup {m.ret}
    /\ made' = made + 1
    /\ trace' = <<>>
    /\ UNCHANGED <<done, dotCode, dotRoot, dotHeap, stack>>

(* n->subdivide() *)
Subdivide(n) ==
    /\ stack = <<>>
    /\ n \in DOMAIN heap
    /\ LET m == SubdivideRec([Mem EXCEPT !.trace = <<>>], n)
       IN  /\ heap' = m.heap
           /\ nextId' = m.nextId
           /\ created' = m.created
           /\ done' = m.done
           /\ trace' = m.trace
    /\ UNCHANGED <<roots, made, dotCode, dotRoot, dotHeap, stack>>

(* std::string dotCode = root->toDotty() *)
Export(r) ==
    /\ stack = <<>>
    /\ r \in roots
    /\ dotCode' = ToDotty(heap, r)
    /\ dotRoot' = r
    /\ dotHeap' = heap
    /\ trace' = <<>>
    /\ UNCHANGED <<nextId, heap, roots, made, created, done, stack>>

(* delete root *)
Teardown(r) ==
    /\ stack = <<>>
    /\ r \in roots
    /\ LET gone == Subtree(heap, r)
       IN  /\ heap' = [a \in DOMAIN heap \ gone |-> heap[a]]
           /\ done' = done \ gone
    /\ roots' = roots \ {r}
    /\ trace' = <<>>
    /\ UNCHANGED <<nextId, made, created, dotCode, dotRoot, dotHeap, stack>>

Next ==
    \/ \E r \in RootRegions : Create(r, MaxCreate)
    \/ \E n \in DOMAIN heap : Subdivide(n)
    \/ \E r \in roots : Export(r)
    \/ \E r \in roots : Teardown(r)

Spec == Init /\ [][Next]_vars

---------------------------------------------------------------------------
(* subdivide() statement by statement.  A frame is the node the call runs on
   and the position in its body: "guard" (line 67), "new" (lines 80-83, the
   i-th construction), "call" (lines 95-98, the i-th recursive call), "ret"
   (line 99). *)

Frame(n, pc, i) == [node |-> n, pc |-> pc, i |-> i]
Top == stack[Len(stack)]
Pop == SubSeq(stack, 1, Len(stack) - 1)
SetTop(f) == [stack EXCEPT ![Len(stack)] = f]

(* a caller invokes n->subdivide() *)
StepCall(n) ==
    /\ stack = <<>>
    /\ n \in DOMAIN heap
    /\ stack' = <<Frame(n, "guard", 0)>>
    /\ trace' = <<>>
    /\ UNCHANGED <<nextId, heap, roots, made, created, done, dotCode, dotRoot, dotHeap>>

(* lines 67-71: the guard, the message and the early return *)
StepGuard ==
    /\ stack # <<>>
    /\ Top.pc = "guard"
    /\ LET nd == heap[Top.node]
       IN  IF Stops(nd)
           THEN /\ trace' = Append(trace, Invocation(nd, TRUE))
                /\ done' = done \cup {Top.node}
                /\ stack' = Pop
           ELSE /\ trace' = Append(trace, Invocation(nd, FALSE))
                /\ done' = done
                /\ stack' = SetTop(Frame(Top.node, "new", 1))
    /\ UNCHANGED <<nextId, heap, roots, made, created, dotCode, dotRoot, dotHeap>>

(* lines 76-83: one of the four constructions *)
StepNew ==
    /\ stack # <<>>
    /\ Top.pc = "new"
    /\ LET m == MakeChild(Mem, Top.node, Slots[Top.i])
       IN  /\ heap' = m.heap
           /\ nextId' = m.nextId
           /\ created' = m.created
    /\ stack' = SetTop(IF Top.i < Len(Slots) THEN Frame(Top.node, "new", Top.i + 1)
                                             ELSE Frame(Top.node, "call", 1))
    /\ UNCHANGED <<roots, made, done, trace, dotCode, dotRoot, dotHeap>>

(* lines 95-98: one of the four recursive calls *)
StepRecurse ==
    /\ stack # <<>>
    /\ Top.pc = "call"
    /\ LET c == SlotOf(heap[Top.node], RecursionOrder[Top.i])
           back == IF Top.i < Len(RecursionOrder) THEN Frame(Top.node, "call", Top.i + 1)
                                                  ELSE Frame(Top.node, "ret", 0)
       IN  stack' = Append(SetTop(back), Frame(c, "guard", 0))
    /\ UNCHANGED <<nextId, heap, roots, made, created, done, trace, dotCode, dotRoot, dotHeap>>

(* line 99: the call returns *)
StepReturn ==
    /\ stack # <<>>
    /\ Top.pc = "ret"
    /\ done' = done \cup {Top.node}
    /\ stack' = Pop
    /\ UNCHANGED <<nextId, heap, roots, made, created, trace, dotCode, dotRoot, dotHeap>>

Running == StepGuard \/ StepNew \/ StepRecurse \/ StepReturn

StepNext ==
    \/ \E r \in StepRegions : Create(r, MaxStepCreate)
    \/ \E n \in DOMAIN heap : StepCall(n)
    \/ StepGuard
    \/ StepNew
    \/ StepRecurse
    \/ StepReturn
    \/ \E r \in roots : Export(r)
    \/ \E r \in roots : Teardown(r)

StepSpec == Init /\ [][StepNext]_vars

(* The program is single-threaded and synchronous: a call that has started
   keeps executing. *)
FairStepSpec == StepSpec /\ WF_vars(Running)

---------------------------------------------------------------------------
(* Vocabulary of the properties. *)

NoChild(nd) ==
    /\ nd.northWest = NULL /\ nd.northEast = NULL
    /\ nd.southWest = NULL /\ nd.southEast = NULL
AllChildren(nd) ==
    /\ nd.northWest # NULL /\ nd.northEast # NULL
    /\ nd.southWest # NULL /\ nd.southEast # NULL

(* a / 2 as C++ computes it *)
Half(a) == IF a >= 0 THEN a \div 2 ELSE 0 - ((0 - a) \div 2)

(* Depth-first pre-order of the tree under n, children in NW, NE, SW, SE order. *)
RECURSIVE PreOrder(_, _)
PreOrder(hp, n) ==
    IF n = NULL THEN <<>>
    ELSE <<n>> \o PreOrder(hp, hp[n].northWest) \o PreOrder(hp, hp[n].northEast)
               \o PreOrder(hp, hp[n].southWest) \o PreOrder(hp, hp[n].southEast)

(* The order in which one subdivide() run constructs the nodes below n: the
   four children of n, then everything below NW, below NE, below SW, below SE. *)
RECURSIVE BuildOrder(_, _)
BuildOrder(hp, n) ==
    IF NoChild(hp[n]) THEN <<>>
    ELSE <<hp[n].northWest, hp[n].northEast, hp[n].southWest, hp[n].southEast>>
         \o BuildOrder(hp, hp[n].northWest) \o BuildOrder(hp, hp[n].northEast)
         \o BuildOrder(hp, hp[n].southWest) \o BuildOrder(hp, hp[n].southEast)

IdsIncrease(hp, order) ==
    \A i, j \in DOMAIN order : i < j => hp[order[i]].id < hp[order[j]].id

---------------------------------------------------------------------------
C2_Partition ==
    \A p \in DOMAIN heap :
        AllChildren(heap[p]) =>
            LET nd == heap[p]
                cw == Half(nd.width)
                ch == Half(nd.height)
                At(c, x, y) == /\ heap[c].width = cw /\ heap[c].height = ch
                               /\ heap[c].x = x /\ heap[c].y = y
            IN  /\ At(nd.northWest, nd.x, nd.y)
                /\ At(nd.northEast, nd.x + cw, nd.y)
                /\ At(nd.southWest, nd.x, nd.y + ch)
                /\ At(nd.southEast, nd.x + cw, nd.y + ch)

(* an internal node with an odd width, a different height and a non-zero origin *)
C2_Witness ==
    \E p \in DOMAIN heap :
        /\ AllChildren(heap[p])
        /\ heap[p].width = 33 /\ heap[p].height = 70 /\ heap[p].x = 3
        /\ AllChildren(heap[heap[p].southEast])

(* C3: nextId is the number of nodes ever constructed, the ids handed out
   increase with the construction order, and the live nodes have pairwise
   distinct ids, each one an id that was handed out. *)
C3_IdCounter ==
    /\ nextId = Len(created)
    /\ \A i, j \in DOMAIN created : i < j => created[i] < created[j]
    /\ \A a, b \in DOMAIN heap : a # b => heap[a].id # heap[b].id
    /\ \A a \in DOMAIN heap : \E i \in DOMAIN created : created[i] = heap[a].id

(* a second tree, built and subdivided after the first one was torn down *)
C3_Witness ==
    /\ made = 2
    /\ \E r \in roots \cap done : ~NoChild(heap[r]) /\ heap[r].id > 0
    /\ nextId > Cardinality(DOMAIN heap)

(* C4 as stated: after subdivide() on a root built with a fresh counter, ids
   increase along the depth-first pre-order (NW, NE, SW, SE) of the tree. *)
C4_PreOrderIds ==
    \A r \in roots \cap done :
        heap[r].id = 0 => IdsIncrease(heap, PreOrder(heap, r))

(* C4 amended: ids increase along the construction order: the root, then the
   four children of a node (NW, NE, SW, SE) before anything below them, then
   the nodes below NW, below NE, below SW, below SE; they are consecutive. *)
C4_BuildOrderIds ==
    \A r \in roots \cap done :
        LET order == <<r>> \o BuildOrder(heap, r)
        IN  /\ IdsIncrease(heap, order)
            /\ \A i \in DOMAIN order : heap[order[i]].id = heap[r].id + i - 1

(* a subdivided tree two levels deep, where the two orders differ *)
C4_Witness ==
    \E r \in roots \cap done :
        /\ heap[r].id = 0
        /\ ~NoChild(heap[r])
        /\ ~NoChild(heap[heap[r].northWest])
        /\ heap[heap[heap[r].northWest].northWest].id > heap[heap[r].northEast].id

(* C5: subdivide() on a node on which subdivide() has already returned changes
   neither the heap (no node made or destroyed; ids, regions and children
   kept) nor nextId. *)
C5_Idempotent ==
    [][\A n \in done : Subdivide(n) =>
          (heap' = heap /\ nextId' = nextId /\ created' = created)]_vars

(* the last call was made on an internal node that already had its children *)
C5_Witness ==
    /\ Len(trace) = 1
    /\ trace[1].kids
    /\ \E r \in roots \cap done : heap[r].id = trace[1].id /\ AllChildren(heap[r])

(* C6: whenever no subdivide() call is running, every node has none or all
   four of its child slots filled, so the north-west slot alone tells a leaf
   from an internal node. *)
C6_FullOrNone ==
    stack = <<>> =>
        \A n \in DOMAIN heap :
            /\ NoChild(heap[n]) \/ AllChildren(heap[n])
            /\ (heap[n].northWest = NULL) <=> NoChild(heap[n])

(* a call has returned and left internal nodes behind *)
C6_Witness ==
    /\ stack = <<>>
    /\ \E r \in roots \cap done :
          AllChildren(heap[r]) /\ AllChildren(heap[heap[r].southEast])

(* C7: a subdivide() call returns: every recursive call runs on a child that
   is strictly narrower and strictly lower than its parent, whose width and
   height both exceed 15. *)
C7_Terminates ==
    /\ [](\A i \in 2..Len(stack) :
            LET c == heap[stack[i].node]
                p == heap[stack[i - 1].node]
            IN  /\ p.width > 15 /\ p.height > 15
                /\ c.width < p.width /\ c.height < p.height)
    /\ (stack # <<>>) ~> (stack = <<>>)

(* a call that recursed has returned *)
C7_Witness ==
    /\ stack = <<>>
    /\ Len(trace) > 5
    /\ \E r \in roots \cap done : trace[1].id = heap[r].id

(* The lines of dotCode that declare a node, and those that declare an edge. *)
NodeLines == {i \in DOMAIN dotCode : dotCode[i].kind = "node"}
EdgeLines == {i \in DOMAIN dotCode : dotCode[i].kind = "edge"}
Children(nd) == {nd.northWest, nd.northEast, nd.southWest, nd.southEast} \ {NULL}
Exported == IF dotRoot = NULL THEN {} ELSE Subtree(dotHeap, dotRoot)

(* One node declaration per node and one edge declaration per link. *)
ExportCounts ==
    /\ \A n \in Exported :
          Cardinality({i \in NodeLines : dotCode[i].id = dotHeap[n].id}) = 1
    /\ Cardinality(NodeLines) = Cardinality(Exported)
    /\ \A p \in Exported : \A c \in Children(dotHeap[p]) :
          Cardinality({i \in EdgeLines : /\ dotCode[i].from = dotHeap[p].id
                                         /\ dotCode[i].to = dotHeap[c].id}) = 1
    /\ dotRoot # NULL => Cardinality(EdgeLines) = Cardinality(Exported) - 1

(* The export of a subdivided 100 x 100 root at (0, 0) with id 0 has k nodes,
   with ids 0 .. k-1, and k-1 edges; that of a 10 x 10 root one node, no edge. *)
ExportExamples(k) ==
    /\ dotRoot # NULL =>
          LET nd == dotHeap[dotRoot]
          IN  /\ ( /\ nd.x = 0 /\ nd.y = 0 /\ nd.width = 100 /\ nd.height = 100
                   /\ nd.id = 0 /\ nd.northWest # NULL )
                 => /\ Cardinality(Exported) = k
                    /\ {dotHeap[n].id : n \in Exported} = 0..(k - 1)
                    /\ Cardinality(EdgeLines) = k - 1
              /\ (nd.width = 10 /\ nd.height = 10)
                 => Cardinality(NodeLines) = 1 /\ Cardinality(EdgeLines) = 0

(* C8 as stated: one declaration per node, one edge per link, and a 100 x 100
   root gives 21 nodes with ids 0 .. 20 and 20 edges. *)
C8_Export21 == ExportCounts /\ ExportExamples(21)

(* C8 amended: one declaration per node, one edge per link, and a 100 x 100
   root gives 85 nodes (1 of 100x100, 4 of 50x50, 16 of 25x25, 64 leaves of
   12x12) with ids 0 .. 84 and 84 edges; a 10 x 10 root one node, no edge. *)
C8_Export85 ==
    /\ ExportCounts
    /\ ExportExamples(85)
    /\ (dotRoot # NULL /\ dotHeap[dotRoot].width = 100 /\ dotHeap[dotRoot].northWest # NULL)
       => LET Sized(w) == {n \in Exported : dotHeap[n].width = w /\ dotHeap[n].height = w}
          IN  /\ Cardinality(Sized(100)) = 1 /\ Cardinality(Sized(50)) = 4
              /\ Cardinality(Sized(25)) = 16 /\ Cardinality(Sized(12)) = 64
              /\ \A n \in Exported : NoChild(dotHeap[n]) <=> n \in Sized(12)

(* the export of the subdivided 100 x 100 root *)
C8_Witness ==
    /\ dotRoot # NULL
    /\ dotHeap[dotRoot].width = 100 /\ dotHeap[dotRoot].height = 100
    /\ dotHeap[dotRoot].id = 0
    /\ dotHeap[dotRoot].northWest # NULL
    /\ Len(dotCode) > 100

(* The line that declares node n, and the lines with the edges leaving n. *)
DeclOf(n) == CHOOSE i \in NodeLines : dotCode[i].id = dotHeap[n].id
EdgesOf(n) == {i \in EdgeLines : dotCode[i].from = dotHeap[n].id}
IsEdge(i, p, c, label) ==
    /\ i \in EdgeLines
    /\ dotCode[i].from = dotHeap[p].id
    /\ dotCode[i].to = dotHeap[c].id
    /\ dotCode[i].label = label

(* C9 as stated: a node is declared before its edges, and the four edges of an
   internal node are the four lines right after its declaration, in the order
   NW, NE, SW, SE. *)
C9_EdgesAdjacent ==
    \A n \in Exported :
        LET k == DeclOf(n)
            nd == dotHeap[n]
        IN  /\ \A e \in EdgesOf(n) : k < e
            /\ ~NoChild(nd) =>
                  /\ IsEdge(k + 1, n, nd.northWest, "NW")
                  /\ IsEdge(k + 2, n, nd.northEast, "NE")
                  /\ IsEdge(k + 3, n, nd.southWest, "SW")
                  /\ IsEdge(k + 4, n, nd.southEast, "SE")

(* C9 amended: a node is declared before its edges; an internal node has four
   edges, in the order NW, NE, SW, SE; the NW edge is the line right after the
   declaration; every edge is followed at once by the declaration of its child
   and then by the rest of the export of that child's subtree, so the next
   edge comes after all of it. *)
C9_ExportOrder ==
    \A n \in Exported :
        LET k == DeclOf(n)
            nd == dotHeap[n]
            Size(c) == 2 * Cardinality(Subtree(dotHeap, c)) - 1
            e1 == k + 1
            e2 == e1 + 1 + Size(nd.northWest)
            e3 == e2 + 1 + Size(nd.northEast)
            e4 == e3 + 1 + Size(nd.southWest)
        IN  /\ \A e \in EdgesOf(n) : k < e
            /\ NoChild(nd) => EdgesOf(n) = {}
            /\ ~NoChild(nd) =>
                  /\ EdgesOf(n) = {e1, e2, e3, e4}
                  /\ IsEdge(e1, n, nd.northWest, "NW") /\ DeclOf(nd.northWest) = e1 + 1
                  /\ IsEdge(e2, n, nd.northEast, "NE") /\ DeclOf(nd.northEast) = e2 + 1
                  /\ IsEdge(e3, n, nd.southWest, "SW") /\ DeclOf(nd.southWest) = e3 + 1
                  /\ IsEdge(e4, n, nd.southEast, "SE") /\ DeclOf(nd.southEast) = e4 + 1

(* the export of a tree two levels deep *)
C9_Witness ==
    /\ dotRoot # NULL
    /\ ~NoChild(dotHeap[dotRoot])
    /\ ~NoChild(dotHeap[dotHeap[dotRoot].northWest])

(* C10: an invocation of subdivide() writes the "Cannot subdivide further"
   message exactly if the node's width or height is at most 15; on a node
   larger than that which already has children it writes nothing. *)
C10_Diagnostic ==
    \A i \in DOMAIN trace :
        /\ trace[i].msg <=> (trace[i].width <= 15 \/ trace[i].height <= 15)
        /\ (trace[i].kids /\ trace[i].width > 15 /\ trace[i].height > 15) => ~trace[i].msg

=============================================================================
